---- MODULE Spec2Model ----
(***************************************************************************)
(* A model of the streaming core of ark-gemini:                            *)
(*   - the twisted scalar-product sumcheck provers                         *)
(*     (src/src/subprotocols/sumcheck/space_prover.rs), and                *)
(*   - the streaming KZG commitment engine (src/src/kzg/space.rs).         *)
(*                                                                         *)
(* Field elements are the integers modulo the prime P.  Streams are finite *)
(* sequences in the order in which the stream yields its items: a          *)
(* polynomial or witness stream yields its highest-index coefficient       *)
(* first, and the SRS stream yields its highest power first.               *)
(* A group element is a formal linear combination of the SRS powers: a     *)
(* sequence of field elements whose d+1-th entry is the coefficient of the *)
(* power of degree d, so that two different pairings of scalars with SRS   *)
(* elements give two different group elements.                             *)
(***************************************************************************)
EXTENDS Integers, Sequences, FiniteSets, TLC

VARIABLES
    sp,        \* the SpaceProver
    tp,        \* the TimeProver driven by the same calls
    transcript,\* the round messages each prover has returned so far
    ck,        \* the CommitterKeyStream: its stream powers_of_g
    last,      \* the last call made and what it returned
    panicked   \* TRUE once a call has aborted (an assertion or an unwrap)

vars == <<sp, tp, transcript, ck, last, panicked>>

(***************************************************************************)
(* Bounds and input sets.                                                  *)
(***************************************************************************)
\* The longest witness vector of the sumcheck specifications.
MaxLen == 4

\* The prime modulus of the scalar field.
P == 5

Fp == 0..(P - 1)

\* Coefficients of the witness vectors, the twists and the challenges drawn.
WitnessCoefs == {0, 1}
Twists == {0, 1, 2}
Challenges == {2, 3}

(***************************************************************************)
(* Option values and small helpers.                                        *)
(***************************************************************************)
None == <<>>
Some(x) == <<x>>
IsSome(o) == Len(o) = 1
Unwrap(o) == o[1]

Min(a, b) == IF a <= b THEN a ELSE b

\* The items of a sequence given by index, as a sequence of values.
Collect(s) == s \o <<>>

Reverse(s) == Collect([i \in 1..Len(s) |-> s[Len(s) + 1 - i]])

\* s without its first n items (Iterator::advance_by, when n <= Len(s)).
Drop(s, n) == SubSeq(s, n + 1, Len(s))

SeqsOfLen(S, n) == [1..n -> S]

(***************************************************************************)
(* The scalar field.                                                       *)
(***************************************************************************)
FAdd(a, b) == (a + b) % P
FSub(a, b) == (a + P - b) % P
FMul(a, b) == (a * b) % P
FNeg(a) == (P - a) % P
FSquare(a) == FMul(a, a)

RECURSIVE FPow(_, _)
FPow(a, e) == IF e = 0 THEN 1 ELSE FMul(a, FPow(a, e - 1))

\* An inverse that answers zero for zero.
FInverseOrZero(a) ==
    IF a = 0 THEN Some(0) ELSE Some(CHOOSE b \in Fp : FMul(a, b) = 1)

\* Field::inverse: None for zero.
FInverse(a) == IF a = 0 THEN None ELSE Some(CHOOSE b \in Fp : FMul(a, b) = 1)

(***************************************************************************)
(* ark_std::log2 (the ceiling of the binary logarithm, 0 for 0) and        *)
(* misc::ceil_div.                                                         *)
(***************************************************************************)
RECURSIVE Pow2(_)
Pow2(n) == IF n = 0 THEN 1 ELSE 2 * Pow2(n - 1)

RECURSIVE Log2From(_, _)
Log2From(x, k) == IF Pow2(k) >= x THEN k ELSE Log2From(x, k + 1)

Log2(x) == IF x = 0 THEN 0 ELSE Log2From(x, 0)

CeilDiv(x, y) == (x + y - 1) \div y

(***************************************************************************)
(* The folded polynomial stream: fold_0 = base,                            *)
(* fold_j(x) = fold_{j-1}(2x) + r_j * fold_{j-1}(2x+1), a missing          *)
(* companion being zero; the stream yields the highest index first.        *)
(***************************************************************************)
\* One folding of a vector in ascending order of index.
FoldPolynomial(v, r) ==
    Collect([x \in 1..CeilDiv(Len(v), 2) |->
                FAdd(v[2 * x - 1],
                     FMul(r, IF 2 * x <= Len(v) THEN v[2 * x] ELSE 0))])

RECURSIVE FoldAll(_, _)
FoldAll(v, rs) ==
    IF rs = <<>>
    THEN v
    ELSE \* each fold is computed once, then folded further
         CHOOSE r \in {FoldAll(w, Tail(rs)) :
                          w \in {FoldPolynomial(v, Head(rs))}} : TRUE

FoldedPolynomialStream(base, challenges) ==
    Reverse(FoldAll(Reverse(base), challenges))

(***************************************************************************)
(* SpaceProver.                                                            *)
(***************************************************************************)
\* A round count taken from the first stream alone.
RequiredRoundsOfF(f, g) == Log2(Len(f))

\* WitnessStream::required_rounds
RequiredRounds(f, g) == Log2(Min(Len(f), Len(g)))

\* SpaceProver::new
SpaceProverNew(f, g, twist) ==
    [ challenges         |-> <<>>,
      twisted_challenges |-> <<>>,
      witness            |-> [f |-> f, g |-> g, twist |-> twist],
      round              |-> 0,
      tot_rounds         |-> RequiredRounds(f, g),
      twist              |-> twist ]

\* The number of leading items skipped on each side to align the streams.
AlignDelta(f_coefficients, g_coefficients) ==
    IF f_coefficients > g_coefficients
    THEN [f |-> f_coefficients - g_coefficients + (g_coefficients % 2), g |-> 0]
    ELSE IF f_coefficients < g_coefficients
    THEN [f |-> 0, g |-> g_coefficients - f_coefficients + (f_coefficients % 2)]
    ELSE [f |-> 0, g |-> 0]

\* The first (odd, even) pair read from an iterator holding `it`, of which
\* `coefficients` are counted: [panic, odd, even, rest].
FirstPair(it, coefficients) ==
    IF coefficients % 2 # 0
    THEN IF Len(it) < 1
         THEN [panic |-> TRUE, odd |-> 0, even |-> 0, rest |-> <<>>]
         ELSE [panic |-> FALSE, odd |-> 0, even |-> it[1], rest |-> Drop(it, 1)]
    ELSE IF Len(it) < 2
         THEN [panic |-> TRUE, odd |-> 0, even |-> 0, rest |-> <<>>]
         ELSE [panic |-> FALSE, odd |-> it[1], even |-> it[2], rest |-> Drop(it, 2)]

\* (coefficients - 2 + coefficients % 2) / 2 in usize arithmetic.  With
\* overflow checks the subtraction aborts below 2; without them it wraps, and
\* the sum wraps back to 0 for 1 and stays near 2^64 for 0 (written -1 here).
PairCount(coefficients, overflow_checks) ==
    IF coefficients >= 2
    THEN [panic |-> FALSE, pairs |-> (coefficients - 2 + (coefficients % 2)) \div 2]
    ELSE IF overflow_checks
    THEN [panic |-> TRUE, pairs |-> 0]
    ELSE [panic |-> FALSE, pairs |-> IF coefficients = 1 THEN 0 ELSE -1]

\* The loop over the remaining pairs: [panic, a, b].
RECURSIVE PairLoop(_, _, _, _, _, _, _, _)
PairLoop(n, f_it, g_it, twist, twist2inv, twist_runner, a, b) ==
    IF n = 0
    THEN [panic |-> FALSE, a |-> a, b |-> b]
    ELSE IF Len(f_it) < 2 \/ Len(g_it) < 2
    THEN [panic |-> TRUE, a |-> a, b |-> b]
    ELSE LET f_odd  == f_it[1]
             g_odd  == g_it[1]
             f_even == f_it[2]
             g_even == g_it[2]
             a2 == FAdd(a, FMul(FMul(f_even, g_even), twist_runner))
             b2 == FAdd(b, FMul(FAdd(FMul(f_even, g_odd),
                                     FMul(FMul(f_odd, g_even), twist)),
                                twist_runner))
         IN  PairLoop(n - 1, Drop(f_it, 2), Drop(g_it, 2), twist, twist2inv,
                      FMul(twist_runner, twist2inv), a2, b2)

\* A twist factor that counts the pairs once instead of twice.
InitialTwistRunnerPerPair(twist, pairs) == FPow(twist, pairs)

\* The twist factor of the first (highest) pair.
InitialTwistRunner(twist, pairs) == FPow(twist, pairs * 2)

\* The round message computed from the two folded streams: [panic, msg].
RoundMessageOf(folded_f, folded_g, s, overflow_checks) ==
    LET delta == AlignDelta(Len(folded_f), Len(folded_g))
        f_coefficients == Len(folded_f) - delta.f
        g_coefficients == Len(folded_g) - delta.g
        f1 == FirstPair(Drop(folded_f, delta.f), f_coefficients)
        g1 == FirstPair(Drop(folded_g, delta.g), g_coefficients)
        f_pairs == PairCount(f_coefficients, overflow_checks)
        g_pairs == PairCount(g_coefficients, overflow_checks)
        twist2inv == FInverse(FSquare(s.twist))
    IN  IF f1.panic \/ g1.panic \/ f_pairs.panic \/ g_pairs.panic
           \/ f_pairs.pairs # g_pairs.pairs \/ ~IsSome(twist2inv)
           \/ f_pairs.pairs < 0
        THEN [panic |-> TRUE, msg |-> None]
        ELSE LET twist_runner == InitialTwistRunner(s.twist, f_pairs.pairs)
                 a0 == FMul(FMul(f1.even, g1.even), twist_runner)
                 b0 == FMul(FAdd(FMul(f1.even, g1.odd),
                                 FMul(FMul(f1.odd, g1.even), s.twist)),
                            twist_runner)
                 r == PairLoop(f_pairs.pairs, f1.rest, g1.rest, s.twist,
                               Unwrap(twist2inv),
                               FMul(twist_runner, Unwrap(twist2inv)), a0, b0)
             IN  [panic |-> r.panic, msg |-> Some(<<r.a, r.b>>)]

\* The round message of an Active round: [panic, msg].
RoundMessage(s, overflow_checks) ==
    \* the folded streams are built once, then read
    CHOOSE msg \in
        {RoundMessageOf(folded[1], folded[2], s, overflow_checks) :
            folded \in {<<FoldedPolynomialStream(s.witness.f,
                                                s.twisted_challenges),
                          FoldedPolynomialStream(s.witness.g,
                                                s.challenges)>>}} : TRUE

\* A next_message that leaves the round counter to fold.
AdvanceRoundNever(s) == s

\* A round counter that skips a round.
AdvanceRoundTwice(s) == [s EXCEPT !.round = s.round + 2]

\* The round counter after a message is returned.
AdvanceRound(s) == [s EXCEPT !.round = s.round + 1]

\* A next_message that does not compare the challenges with the round.
ChallengesAtRoundUnchecked(s) == TRUE

\* assert_eq!(self.challenges.len(), self.round)
ChallengesAtRound(s) == Len(s.challenges) = s.round

\* A Done test that answers one round late.
IsDoneLate(s) == s.round = s.tot_rounds + 1

\* A next_message that takes no round for the last.
IsDoneNever(s) == FALSE

\* self.round == self.tot_rounds
IsDone(s) == s.round = s.tot_rounds

\* SpaceProver::next_message: [panic, prover, ret].
SpaceNextMessage(s, overflow_checks) ==
    IF ~(s.round <= s.tot_rounds) \/ ~ChallengesAtRound(s)
    THEN [panic |-> TRUE, prover |-> s, ret |-> None]
    ELSE IF IsDone(s)
    THEN [panic |-> FALSE, prover |-> s, ret |-> None]
    ELSE LET m == RoundMessage(s, overflow_checks)
         IN  IF m.panic
             THEN [panic |-> TRUE, prover |-> s, ret |-> None]
             ELSE [panic |-> FALSE,
                   prover |-> AdvanceRound(s),
                   ret |-> m.msg]

\* Prover::rounds and Prover::round of the SpaceProver.
SpaceRounds(s) == s.tot_rounds

SpaceRound(s) == s.round

\* fold that leaves the twist as it is.
SpaceFoldKeepsTwist(s, r) ==
    [s EXCEPT !.challenges = Append(s.challenges, r),
              !.twisted_challenges = Append(s.twisted_challenges, FMul(r, s.twist))]

\* A fold that stores the plain challenge on both lists.
SpaceFoldUntwisted(s, r) ==
    [s EXCEPT !.challenges = Append(s.challenges, r),
              !.twisted_challenges = Append(s.twisted_challenges, r),
              !.twist = FSquare(s.twist)]

\* A fold that stores the challenge on the plain list alone.
SpaceFoldPlainOnly(s, r) ==
    [s EXCEPT !.challenges = Append(s.challenges, r),
              !.twist = FSquare(s.twist)]

\* SpaceProver::fold
SpaceFold(s, r) ==
    [s EXCEPT !.challenges = Append(s.challenges, r),
              !.twisted_challenges = Append(s.twisted_challenges, FMul(r, s.twist)),
              !.twist = FSquare(s.twist)]

\* SpaceProver::final_foldings
SpaceFinalFoldings(s) ==
    LET folded_f == FoldedPolynomialStream(s.witness.f, s.twisted_challenges)
        folded_g == FoldedPolynomialStream(s.witness.g, s.challenges)
    IN  IF Len(folded_f) = 0 \/ Len(folded_g) = 0
        THEN None
        ELSE IF s.round = s.tot_rounds
        THEN Some(<<folded_f[1], folded_g[1]>>)
        ELSE None

(***************************************************************************)
(* TimeProver: f and g are held in ascending order of index.               *)
(***************************************************************************)
\* TimeProver::new
TimeProverNew(f, g, twist) ==
    [ f          |-> Reverse(f),
      g          |-> Reverse(g),
      round      |-> 0,
      twist      |-> twist,
      tot_rounds |-> RequiredRounds(f, g) ]

\* The sum over the adjacent (even, odd) pairs from pair k on: <<a, b>>.
RECURSIVE TimeSum(_, _, _, _, _)
TimeSum(t, k, twist_runner, a, b) ==
    IF 2 * k - 1 > Len(t.f) \/ 2 * k - 1 > Len(t.g)
    THEN <<a, b>>
    ELSE LET f_even == t.f[2 * k - 1]
             g_even == t.g[2 * k - 1]
             f_odd  == IF 2 * k <= Len(t.f) THEN t.f[2 * k] ELSE 0
             g_odd  == IF 2 * k <= Len(t.g) THEN t.g[2 * k] ELSE 0
         IN  TimeSum(t, k + 1, FMul(twist_runner, FSquare(t.twist)),
                     FAdd(a, FMul(FMul(f_even, g_even), twist_runner)),
                     FAdd(b, FMul(FAdd(FMul(f_even, g_odd),
                                       FMul(FMul(g_even, f_odd), t.twist)),
                                  twist_runner)))

\* TimeProver::next_message: [prover, ret].
TimeNextMessage(t) ==
    IF t.round = t.tot_rounds
    THEN [prover |-> t, ret |-> None]
    ELSE [prover |-> [t EXCEPT !.round = t.round + 1],
          ret |-> Some(TimeSum(t, 1, 1, 0, 0))]

\* TimeProver::fold
TimeFold(t, r) ==
    [t EXCEPT !.f = FoldPolynomial(t.f, FMul(r, t.twist)),
              !.g = FoldPolynomial(t.g, r),
              !.twist = FSquare(t.twist)]

\* TimeProver::final_foldings
TimeFinalFoldings(t) ==
    IF t.round = t.tot_rounds /\ Len(t.f) > 0 /\ Len(t.g) > 0
    THEN Some(<<t.f[1], t.g[1]>>)
    ELSE None

\* A conversion that copies the folded streams in the order they yield.
TimeProverFromUnreversed(s) ==
    [ f          |-> FoldedPolynomialStream(s.witness.f, s.twisted_challenges),
      g          |-> FoldedPolynomialStream(s.witness.g, s.challenges),
      round      |-> s.round,
      twist      |-> s.twist,
      tot_rounds |-> s.tot_rounds ]

\* From<&SpaceProver> for TimeProver: the vectors are filled from the back
\* with the folded streams, which yield the highest index first.
TimeProverFrom(s) ==
    [ f          |-> Reverse(FoldedPolynomialStream(s.witness.f,
                                                    s.twisted_challenges)),
      g          |-> Reverse(FoldedPolynomialStream(s.witness.g,
                                                    s.challenges)),
      round      |-> s.round,
      twist      |-> s.twist,
      tot_rounds |-> s.tot_rounds ]

(***************************************************************************)
(* The sumcheck specification: both provers are built from one witness and *)
(* driven by the same calls, in any order.                                 *)
(***************************************************************************)
NoKey == [powers_of_g |-> <<>>]

NoCall == [op |-> "new", arg |-> None, space |-> None, time |-> None,
           before |-> 0]

\* Witnesses of equal length.
Init ==
    \E n \in 1..MaxLen :
    \E f \in SeqsOfLen(WitnessCoefs, n), g \in SeqsOfLen(WitnessCoefs, n) :
    \E twist \in Twists :
        /\ sp = SpaceProverNew(f, g, twist)
        /\ tp = TimeProverNew(f, g, twist)
        /\ transcript = [space |-> <<>>, time |-> <<>>]
        /\ ck = NoKey
        /\ last = NoCall
        /\ panicked = FALSE

NextMessage ==
    /\ ~panicked
    /\ \E overflow_checks \in BOOLEAN :
       \E s \in {SpaceNextMessage(sp, overflow_checks)} :
       \E t \in {TimeNextMessage(tp)} :
            /\ panicked' = s.panic
            /\ sp' = s.prover
            /\ tp' = IF s.panic THEN tp ELSE t.prover
            /\ transcript' =
                 IF s.panic THEN transcript
                 ELSE [space |-> transcript.space \o s.ret,
                       time  |-> transcript.time \o t.ret]
            /\ last' = [op |-> "next_message", arg |-> None,
                        space |-> s.ret,
                        time |-> IF s.panic THEN None ELSE t.ret,
                        before |-> sp.round]
            /\ UNCHANGED ck

\* The challenge list is capped one past the round counter: one fold too
\* many is reachable, a second one adds nothing.
Fold ==
    /\ ~panicked
    /\ Len(sp.challenges) <= sp.round
    /\ Len(sp.challenges) <= sp.tot_rounds
    /\ \E r \in Challenges :
        /\ sp' = SpaceFold(sp, r)
        /\ tp' = TimeFold(tp, r)
        /\ last' = [op |-> "fold", arg |-> Some(r), space |-> None,
                    time |-> None, before |-> sp.round]
        /\ UNCHANGED <<transcript, ck, panicked>>

FinalFoldings ==
    /\ ~panicked
    /\ last.op # "final_foldings"
    /\ last' = [op |-> "final_foldings", arg |-> None,
                space |-> SpaceFinalFoldings(sp),
                time |-> TimeFinalFoldings(tp),
                before |-> sp.round]
    /\ UNCHANGED <<sp, tp, transcript, ck, panicked>>

Next == NextMessage \/ Fold \/ FinalFoldings

Spec == Init /\ [][Next]_vars

(***************************************************************************)
(* The protocol loop: next_message() and fold(challenge) alternate while   *)
(* next_message() returns a message; when it returns None the loop ends    *)
(* and final_foldings() is recorded.  The loop is a sequential program     *)
(* that runs on while it has a step to take.                               *)
(***************************************************************************)
LoopNextMessage ==
    /\ last.op \in {"new", "fold"}
    /\ NextMessage

LoopFold ==
    /\ last.op = "next_message"
    /\ IsSome(last.space)
    /\ Fold

LoopFinalFoldings ==
    /\ last.op = "next_message"
    /\ last.space = None
    /\ FinalFoldings

LoopNext == LoopNextMessage \/ LoopFold \/ LoopFinalFoldings

LoopSpec == Init /\ [][LoopNext]_vars /\ WF_vars(LoopNext)

(***************************************************************************)
(* The length specification: the same calls on witnesses of any two        *)
(* lengths.  The rounds, the alignment and the aborts of the SpaceProver   *)
(* depend on the lengths alone, so every coefficient is one.               *)
(***************************************************************************)
\* The longest witness stream.
MaxWitnessLen == 8

Ones(n) == Collect([i \in 1..n |-> 1])

LengthInit ==
    \E len_f \in 0..MaxWitnessLen, len_g \in 0..MaxWitnessLen :
    \E twist \in Twists :
        /\ sp = SpaceProverNew(Ones(len_f), Ones(len_g), twist)
        /\ tp = TimeProverNew(Ones(len_f), Ones(len_g), twist)
        /\ transcript = [space |-> <<>>, time |-> <<>>]
        /\ ck = NoKey
        /\ last = NoCall
        /\ panicked = FALSE

LengthSpec == LengthInit /\ [][Next]_vars

(***************************************************************************)
(* The conversion specification: the sumcheck calls on witnesses whose two *)
(* streams have any two lengths and any coefficients.                      *)
(***************************************************************************)
MaxStreamLen == 4

Streams == UNION {SeqsOfLen(WitnessCoefs, n) : n \in 0..MaxStreamLen}

ConversionInit ==
    \E f \in Streams, g \in Streams :
    \E twist \in Twists :
        /\ sp = SpaceProverNew(f, g, twist)
        /\ tp = TimeProverNew(f, g, twist)
        /\ transcript = [space |-> <<>>, time |-> <<>>]
        /\ ck = NoKey
        /\ last = NoCall
        /\ panicked = FALSE

ConversionSpec == ConversionInit /\ [][Next]_vars

(***************************************************************************)
(* usize arithmetic.  The values of the model are far below 2^64, so a     *)
(* difference that wraps is written as the negative number it is congruent *)
(* to: a negative value stands for a number near 2^64, larger than every   *)
(* stream.  With overflow checks (a debug build) the operation aborts      *)
(* instead of wrapping.                                                    *)
(***************************************************************************)
UsizeSub(a, b, overflow_checks) ==
    [panic |-> overflow_checks /\ a < b, value |-> a - b]

UsizeAdd(a, b, overflow_checks) ==
    [panic |-> overflow_checks /\ a < 0 /\ a + b >= 0, value |-> a + b]

\* Iterator::advance_by: None when fewer than n items remain.
AdvanceBy(it, n) ==
    IF n < 0 \/ n > Len(it) THEN None ELSE Some(Drop(it, n))

\* Iterator::take
Take(it, n) == SubSeq(it, 1, Min(n, Len(it)))

(***************************************************************************)
(* The group G1: formal combinations of the SRS powers of degree below     *)
(* GDim.  A base is named by its degree.                                   *)
(***************************************************************************)
\* The longest polynomial of the commitment specifications.
MaxPolyLen == 3

GDim == MaxPolyLen + 2

GZero == Collect([i \in 1..GDim |-> 0])

GAdd(x, y) == Collect([i \in 1..GDim |-> FAdd(x[i], y[i])])

\* scalar times the power of degree `base`.
GMul(base, scalar) ==
    Collect([i \in 1..GDim |-> IF i = base + 1 THEN scalar ELSE 0])

GScale(x, scalar) == Collect([i \in 1..GDim |-> FMul(x[i], scalar)])

\* VariableBaseMSM::msm: the sum of scalars[j] * bases[j].
RECURSIVE Msm(_, _)
Msm(bases, scalars) ==
    IF bases = <<>> \/ scalars = <<>>
    THEN GZero
    ELSE GAdd(GMul(Head(bases), Head(scalars)), Msm(Tail(bases), Tail(scalars)))

\* The stream of an SRS of n powers: the degrees n-1 down to 0.
PowersOfG(n) == [i \in 1..n |-> n - i]

(***************************************************************************)
(* ChunkedPippenger and HashMapPippenger: a buffer of (base, scalar) pairs *)
(* that is summed into the result when it holds buf_size pairs, and at     *)
(* finalize.  The memory budget is counted in pairs.                       *)
(***************************************************************************)
RECURSIVE MsmPairs(_)
MsmPairs(buffer) ==
    IF buffer = <<>>
    THEN GZero
    ELSE GAdd(GMul(Head(buffer)[1], Head(buffer)[2]), MsmPairs(Tail(buffer)))

PippengerWithSize(buf_size) ==
    [buffer |-> <<>>, result |-> GZero, buf_size |-> buf_size]

PippengerAdd(p, base, scalar) ==
    LET buffer == Append(p.buffer, <<base, scalar>>)
    IN  IF Len(buffer) = p.buf_size
        THEN [p EXCEPT !.result = GAdd(p.result, MsmPairs(buffer)),
                       !.buffer = <<>>]
        ELSE [p EXCEPT !.buffer = buffer]

\* HashMapPippenger::add: the scalars of one base are summed in the buffer.
HashMapPippengerAdd(p, base, scalar) ==
    LET buffer ==
            IF \E k \in 1..Len(p.buffer) : p.buffer[k][1] = base
            THEN Collect([k \in 1..Len(p.buffer) |->
                            IF p.buffer[k][1] = base
                            THEN <<base, FAdd(p.buffer[k][2], scalar)>>
                            ELSE p.buffer[k]])
            ELSE Append(p.buffer, <<base, scalar>>)
    IN  IF Len(buffer) = p.buf_size
        THEN [p EXCEPT !.result = GAdd(p.result, MsmPairs(buffer)),
                       !.buffer = <<>>]
        ELSE [p EXCEPT !.buffer = buffer]

PippengerFinalize(p) ==
    IF p.buffer # <<>> THEN GAdd(p.result, MsmPairs(p.buffer)) ELSE p.result

(***************************************************************************)
(* msm_chunks and commit.  The chunk size, 1 << 20 in the source, is a     *)
(* parameter here so that streams of a few items span several chunks.      *)
(***************************************************************************)
Step == 1048576

\* A loop that leaves out the last, partial chunk.
ChunkCountFloor(len, step) == len \div step

\* The number of chunks of the loop.
ChunkCount(len, step) == (len + step - 1) \div step

RECURSIVE MsmChunkLoop(_, _, _, _, _)
MsmChunkLoop(n, bases, scalars, step, result) ==
    IF n = 0
    THEN result
    ELSE MsmChunkLoop(n - 1,
                      Drop(bases, Min(step, Len(bases))),
                      Drop(scalars, Min(step, Len(scalars))),
                      step,
                      GAdd(result, Msm(Take(bases, step), Take(scalars, step))))

\* msm_chunks: [panic, value].
MsmChunks(bases_stream, scalars_stream, step) ==
    IF ~(Len(scalars_stream) <= Len(bases_stream))
    THEN [panic |-> TRUE, value |-> <<>>]
    ELSE LET bases == AdvanceBy(bases_stream,
                                Len(bases_stream) - Len(scalars_stream))
         IN  [panic |-> FALSE,
              value |-> MsmChunkLoop(ChunkCount(Len(scalars_stream), step),
                                     Unwrap(bases), scalars_stream, step, GZero)]

\* CommitterKeyStream::commit: [panic, value].
Commit(key, polynomial, step) ==
    IF ~(Len(key.powers_of_g) >= Len(polynomial))
    THEN [panic |-> TRUE, value |-> <<>>]
    ELSE MsmChunks(key.powers_of_g, polynomial, step)

(***************************************************************************)
(* open: Horner's division by x - alpha fused with the commitment to the   *)
(* quotient.                                                               *)
(***************************************************************************)
\* A loop that commits to each coefficient after the Horner step.
RECURSIVE OpenLoopAfterStep(_, _, _, _, _)
OpenLoopAfterStep(scalars, bases, previous, alpha, quotient) ==
    IF scalars = <<>> \/ bases = <<>>
    THEN [previous |-> previous, quotient |-> quotient]
    ELSE LET coefficient == FAdd(FMul(previous, alpha), Head(scalars))
         IN  OpenLoopAfterStep(Tail(scalars), Tail(bases), coefficient, alpha,
                               PippengerAdd(quotient, Head(bases), coefficient))

\* The loop over the zipped scalars and bases: [previous, quotient].
RECURSIVE OpenLoop(_, _, _, _, _)
OpenLoop(scalars, bases, previous, alpha, quotient) ==
    IF scalars = <<>> \/ bases = <<>>
    THEN [previous |-> previous, quotient |-> quotient]
    ELSE LET coefficient == FAdd(FMul(previous, alpha), Head(scalars))
         IN  OpenLoop(Tail(scalars), Tail(bases), coefficient, alpha,
                      PippengerAdd(quotient, Head(bases), previous))

\* CommitterKeyStream::open: [panic, value], value = <<evaluation, proof>>.
Open(key, polynomial, alpha, max_msm_buffer, overflow_checks) ==
    LET skip == UsizeSub(Len(key.powers_of_g), Len(polynomial), overflow_checks)
        bases == AdvanceBy(key.powers_of_g, skip.value)
    IN  IF skip.panic \/ ~IsSome(bases)
        THEN [panic |-> TRUE, value |-> <<>>]
        ELSE LET r == OpenLoop(polynomial, Unwrap(bases), 0, alpha,
                               PippengerWithSize(max_msm_buffer))
             IN  [panic |-> FALSE,
                  value |-> <<r.previous, PippengerFinalize(r.quotient)>>]

(***************************************************************************)
(* open_multi_points: division by the vanishing polynomial of the points   *)
(* with a sliding window of points.len() coefficients.                     *)
(***************************************************************************)
\* z(x) * (x - point), coefficients in ascending order of degree.
MulByLinear(z, point) ==
    Collect([i \in 1..(Len(z) + 1) |->
                FSub(IF i > 1 THEN z[i - 1] ELSE 0,
                     FMul(point, IF i <= Len(z) THEN z[i] ELSE 0))])

\* kzg::vanishing_polynomial: the coefficients of the product of
\* (x - point), in ascending order of degree.
RECURSIVE VanishingPolynomial(_)
VanishingPolynomial(points) ==
    IF points = <<>>
    THEN <<1>>
    ELSE MulByLinear(VanishingPolynomial(Tail(points)), Head(points))

\* DensePolynomial::degree of a vanishing polynomial.
Degree(zeros) == Len(zeros) - 1

\* A window update that reads the divisor from its low end.
DivisorCoefficientLowFirst(zeros, i) == zeros[i + 1]

\* zeros.coeffs[zeros.degree() - i - 1]
DivisorCoefficient(zeros, i) == zeros[(Degree(zeros) - i - 1) + 1]

\* A window update that pops without pushing.
SlideWindowNoPush(state, coefficient, zeros, len) ==
    LET quotient_coefficient == Head(state)
        popped == Tail(state)
    IN  Collect([i \in 1..Len(popped) |->
                    FSub(popped[i],
                         FMul(DivisorCoefficient(zeros, i - 1),
                              quotient_coefficient))])

\* A window update that pushes without popping.
SlideWindowNoPop(state, coefficient, zeros, len) ==
    LET quotient_coefficient == Head(state)
        pushed == Append(state, coefficient)
    IN  Collect([i \in 1..Len(pushed) |->
                    IF i <= len
                    THEN FSub(pushed[i],
                              FMul(DivisorCoefficient(zeros, i - 1),
                                   quotient_coefficient))
                    ELSE pushed[i]])

\* The window after a quotient coefficient is popped and `coefficient` pushed.
SlideWindow(state, coefficient, zeros, len) ==
    LET quotient_coefficient == Head(state)
        pushed == Append(Tail(state), coefficient)
    IN  Collect([i \in 1..Len(pushed) |->
                    IF i <= len
                    THEN FSub(pushed[i],
                              FMul(DivisorCoefficient(zeros, i - 1),
                                   quotient_coefficient))
                    ELSE pushed[i]])

\* The loop over the coefficients after the seed: [panic, state, quotient,
\* windows, fed].  windows lists the window after each processed
\* coefficient and fed the (base, scalar) pairs given to the accumulator, in
\* the order of the loop; neither is read by the loop.
RECURSIVE OpenMultiPointsLoop(_, _, _, _, _, _)
OpenMultiPointsLoop(it, bases, state, zeros, len, quotient) ==
    IF it = <<>>
    THEN [panic |-> FALSE, state |-> state, quotient |-> quotient,
          windows |-> <<>>, fed |-> <<>>]
    ELSE IF state = <<>> \/ bases = <<>>
    THEN [panic |-> TRUE, state |-> state, quotient |-> quotient,
          windows |-> <<>>, fed |-> <<>>]
    ELSE \* the window is computed once and passed on
         CHOOSE r \in
             {[OpenMultiPointsLoop(Tail(it), Tail(bases), next_state, zeros,
                                   len,
                                   PippengerAdd(quotient, Head(bases),
                                                Head(state)))
                 EXCEPT !.windows = <<next_state>> \o @,
                        !.fed = <<[base |-> Head(bases),
                                   scalar |-> Head(state)]>> \o @] :
                 next_state \in {SlideWindow(state, Head(it), zeros, len)}} :
             TRUE

\* A skip that leaves out the degree of the divisor.
SkipForMultiPointsNoDegree(srs_len, poly_len, degree, overflow_checks) ==
    UsizeSub(srs_len, poly_len, overflow_checks)

\* self.powers_of_g.len() - polynomial.len() + zeros.degree()
SkipForMultiPoints(srs_len, poly_len, degree, overflow_checks) ==
    LET d == UsizeSub(srs_len, poly_len, overflow_checks)
        s == UsizeAdd(d.value, degree, overflow_checks)
    IN  [panic |-> d.panic \/ s.panic, value |-> s.value]

\* CommitterKeyStream::open_multi_points: [panic, value],
\* value = <<remainder, proof>>; a call that returns also carries the
\* windows (the seed first) and the pairs fed to the accumulator.
OpenMultiPoints(key, polynomial, points, max_msm_buffer, overflow_checks) ==
    LET zeros == VanishingPolynomial(points)
        skip == SkipForMultiPoints(Len(key.powers_of_g), Len(polynomial),
                                   Degree(zeros), overflow_checks)
        bases == AdvanceBy(key.powers_of_g, skip.value)
    IN  IF skip.panic \/ ~IsSome(bases) \/ Len(polynomial) < Len(points)
        THEN [panic |-> TRUE, value |-> <<>>]
        ELSE LET r == OpenMultiPointsLoop(Drop(polynomial, Len(points)),
                                          Unwrap(bases),
                                          Take(polynomial, Len(points)),
                                          zeros, Len(points),
                                          PippengerWithSize(max_msm_buffer))
             IN  IF r.panic
                 THEN [panic |-> TRUE, value |-> <<>>]
                 ELSE [panic |-> FALSE,
                       value |-> <<r.state, PippengerFinalize(r.quotient)>>,
                       windows |-> <<Take(polynomial, Len(points))>>
                                       \o r.windows,
                       fed |-> r.fed]

(***************************************************************************)
(* The commitment specification: one call on a key and inputs drawn from   *)
(* bounded sets.                                                           *)
(***************************************************************************)
\* The most points of an opening, and the largest chunk size drawn.
MaxPoints == 2
MaxStep == 3

\* One SRS shorter than the longest polynomial and one longer.
SrsLens == {MaxPolyLen - 1, MaxPolyLen + 1}

Polynomials == UNION {SeqsOfLen(Fp, n) : n \in 0..MaxPolyLen}

\* The point lists, up to order: the vanishing polynomial is a product over
\* the points, so the order of the list does not reach the result.
PointLists ==
    UNION {{pts \in SeqsOfLen(Fp, m) :
                \A i \in 1..(m - 1) : pts[i] <= pts[i + 1]} : m \in 0..MaxPoints}

Steps == (1..MaxStep) \cup {Step}

MsmBuffers == {1, 2}

NoProver == SpaceProverNew(<<>>, <<>>, 0)

KzgInit ==
    \E n \in SrsLens :
        /\ ck = [powers_of_g |-> PowersOfG(n)]
        /\ sp = NoProver
        /\ tp = TimeProverNew(<<>>, <<>>, 0)
        /\ transcript = [space |-> <<>>, time |-> <<>>]
        /\ last = NoCall
        /\ panicked = FALSE

CallMsmChunks ==
    /\ last.op = "new"
    /\ \E scalars \in Polynomials, step \in Steps :
        LET r == MsmChunks(ck.powers_of_g, scalars, step)
        IN  /\ last' = [op |-> "msm_chunks", polynomial |-> scalars,
                        step |-> step, ret |-> r]
            /\ panicked' = r.panic
    /\ UNCHANGED <<sp, tp, transcript, ck>>

CallCommit ==
    /\ last.op = "new"
    /\ \E polynomial \in Polynomials, step \in Steps :
        LET r == Commit(ck, polynomial, step)
        IN  /\ last' = [op |-> "commit", polynomial |-> polynomial,
                        step |-> step, ret |-> r]
            /\ panicked' = r.panic
    /\ UNCHANGED <<sp, tp, transcript, ck>>

CallOpen ==
    /\ last.op = "new"
    /\ \E polynomial \in Polynomials, alpha \in Fp :
       \E max_msm_buffer \in MsmBuffers, overflow_checks \in BOOLEAN :
        LET r == Open(ck, polynomial, alpha, max_msm_buffer, overflow_checks)
        IN  /\ last' = [op |-> "open", polynomial |-> polynomial,
                        alpha |-> alpha, max_msm_buffer |-> max_msm_buffer,
                        overflow_checks |-> overflow_checks, ret |-> r]
            /\ panicked' = r.panic
    /\ UNCHANGED <<sp, tp, transcript, ck>>

CallOpenMultiPoints ==
    /\ last.op = "new"
    /\ \E polynomial \in Polynomials, points \in PointLists :
       \E max_msm_buffer \in MsmBuffers, overflow_checks \in BOOLEAN :
        LET r == OpenMultiPoints(ck, polynomial, points, max_msm_buffer,
                                 overflow_checks)
        IN  /\ last' = [op |-> "open_multi_points", polynomial |-> polynomial,
                        points |-> points, max_msm_buffer |-> max_msm_buffer,
                        overflow_checks |-> overflow_checks, ret |-> r]
            /\ panicked' = r.panic
    /\ UNCHANGED <<sp, tp, transcript, ck>>

KzgNext == CallMsmChunks \/ CallCommit \/ CallOpen \/ CallOpenMultiPoints

KzgSpec == KzgInit /\ [][KzgNext]_vars

(***************************************************************************)
(* The conversions of keys.  A CommitterKey holds its powers in ascending  *)
(* order of degree, entry i being the power of degree i - 1; the stream    *)
(* borrows them through a reversed view.                                   *)
(***************************************************************************)
\* From<&CommitterKey> for CommitterKeyStream
CommitterKeyStreamFrom(key) ==
    [powers_of_g  |-> Reverse(key.powers_of_g),
     powers_of_g2 |-> key.powers_of_g2]

\* Iterator::skip: what is left after n items, nothing when fewer remain.
\* A wrapped (negative) n stands for a count near 2^64.
Skip(it, n) == IF n < 0 \/ n > Len(it) THEN <<>> ELSE Drop(it, n)

\* as_committer_key without the final reversal.
AsCommitterKeyUnreversed(stream, max_degree, overflow_checks) ==
    LET offset == UsizeSub(Len(stream.powers_of_g), max_degree,
                           overflow_checks)
    IN  IF offset.panic
        THEN [panic |-> TRUE, value |-> <<>>]
        ELSE [panic |-> FALSE,
              value |-> <<[powers_of_g  |-> Skip(stream.powers_of_g,
                                                  offset.value),
                           powers_of_g2 |-> stream.powers_of_g2]>>]

\* CommitterKeyStream::as_committer_key: [panic, value], value = <<key>>.
AsCommitterKey(stream, max_degree, overflow_checks) ==
    LET offset == UsizeSub(Len(stream.powers_of_g), max_degree,
                           overflow_checks)
    IN  IF offset.panic
        THEN [panic |-> TRUE, value |-> <<>>]
        ELSE [panic |-> FALSE,
              value |-> <<[powers_of_g  |-> Reverse(Skip(stream.powers_of_g,
                                                          offset.value)),
                           powers_of_g2 |-> stream.powers_of_g2]>>]

\* From<&CommitterKeyStream> for VerifierKey: [panic, value],
\* value = <<verifier key>>.
VerifierKeyFrom(stream) ==
    IF stream.powers_of_g = <<>>
    THEN [panic |-> TRUE, value |-> <<>>]
    ELSE [panic |-> FALSE,
          value |-> <<[powers_of_g2 |-> stream.powers_of_g2,
                       powers_of_g  |->
                           <<stream.powers_of_g[Len(stream.powers_of_g)]>>]>>]

(***************************************************************************)
(* The key specification: a stream is taken from a CommitterKey of any     *)
(* entries, then converted once.                                           *)
(***************************************************************************)
MaxKeyLen == 3

\* The entries a key is drawn from, and its two G2 elements.
KeyElems == {"g_a", "g_b", "g_c"}

G2Powers == <<"h", "h_tau">>

CommitterKeys ==
    UNION {{[powers_of_g |-> powers, powers_of_g2 |-> G2Powers] :
                powers \in SeqsOfLen(KeyElems, n)} : n \in 0..MaxKeyLen}

KeyInit ==
    \E key \in CommitterKeys :
        /\ ck = CommitterKeyStreamFrom(key)
        /\ sp = NoProver
        /\ tp = TimeProverNew(<<>>, <<>>, 0)
        /\ transcript = [space |-> <<>>, time |-> <<>>]
        /\ last = [op |-> "from", key |-> key]
        /\ panicked = FALSE

CallAsCommitterKey ==
    /\ last.op = "from"
    /\ \E max_degree \in 0..(Len(ck.powers_of_g) + 1) :
       \E overflow_checks \in BOOLEAN :
        LET r == AsCommitterKey(ck, max_degree, overflow_checks)
        IN  /\ last' = [op |-> "as_committer_key", key |-> last.key,
                        max_degree |-> max_degree,
                        overflow_checks |-> overflow_checks, ret |-> r]
            /\ panicked' = r.panic
    /\ UNCHANGED <<sp, tp, transcript, ck>>

CallVerifierKeyFrom ==
    /\ last.op = "from"
    /\ LET r == VerifierKeyFrom(ck)
       IN  /\ last' = [op |-> "verifier_key", key |-> last.key, ret |-> r]
           /\ panicked' = r.panic
    /\ UNCHANGED <<sp, tp, transcript, ck>>

KeyNext == CallAsCommitterKey \/ CallVerifierKeyFrom

KeySpec == KeyInit /\ [][KeyNext]_vars

(***************************************************************************)
(* The folded polynomial tree: level i, for i in 1..depth, is the base     *)
(* stream folded by the first i challenges.  One pass over the base stream *)
(* yields the items of all levels interleaved, each tagged by its level:   *)
(* level i yields an item when 2^i base positions (counted with the zero   *)
(* padding in front of the stream) are complete.                           *)
(***************************************************************************)
FoldedPolynomialTree(coefficients, challenges) ==
    [coefficients |-> coefficients, challenges |-> challenges]

\* FoldedPolynomialTree::depth and ::len
TreeDepth(tree) == Len(tree.challenges)
TreeLen(tree) == Len(tree.coefficients)

\* The materialized polynomial of level i.
TreeLevel(tree, i) ==
    FoldedPolynomialStream(tree.coefficients, Take(tree.challenges, i))

\* The zero padding in front of the base stream.
TreePadding(tree) ==
    (Pow2(TreeDepth(tree)) - (TreeLen(tree) % Pow2(TreeDepth(tree))))
        % Pow2(TreeDepth(tree))

\* The items yielded when base position c is complete, from level i on;
\* levels[i] is the stream of level i and padding the zeros in front.
RECURSIVE TreeItemsAt(_, _, _, _)
TreeItemsAt(levels, padding, c, i) ==
    IF i > Len(levels) \/ c % Pow2(i) # 0
    THEN <<>>
    ELSE <<<<i, levels[i][(c \div Pow2(i)) - (padding \div Pow2(i))]>>>>
         \o TreeItemsAt(levels, padding, c, i + 1)

\* The items from base position c on, up to the last position.
RECURSIVE TreeItemsFrom(_, _, _, _)
TreeItemsFrom(levels, padding, c, end) ==
    IF c > end
    THEN <<>>
    ELSE TreeItemsAt(levels, padding, c, 1)
         \o TreeItemsFrom(levels, padding, c + 1, end)

\* FoldedPolynomialTree::iter
TreeItems(tree) ==
    TreeItemsFrom([i \in 1..TreeDepth(tree) |-> TreeLevel(tree, i)],
                  TreePadding(tree), TreePadding(tree) + 1,
                  TreePadding(tree) + TreeLen(tree))

(***************************************************************************)
(* commit_folding and open_folding.                                        *)
(***************************************************************************)
\* A skip that rounds the length of the level down.
FoldingSkipFloor(srs_len, len, i, overflow_checks) ==
    UsizeSub(srs_len, len \div Pow2(i), overflow_checks)

\* self.powers_of_g.len() - ceil_div(polynomials.len(), 1 << i)
FoldingSkip(srs_len, len, i, overflow_checks) ==
    UsizeSub(srs_len, CeilDiv(len, Pow2(i)), overflow_checks)

\* The base iterators of the levels 1..n, each advanced to its level:
\* [panic, bases].
FoldedBases(key, tree, overflow_checks) ==
    LET skip(i) == FoldingSkip(Len(key.powers_of_g), TreeLen(tree), i,
                               overflow_checks)
        levels == 1..TreeDepth(tree)
    IN  IF \E i \in levels :
              skip(i).panic \/ ~IsSome(AdvanceBy(key.powers_of_g, skip(i).value))
        THEN [panic |-> TRUE, bases |-> <<>>]
        ELSE [panic |-> FALSE,
              bases |-> [i \in levels |->
                            Unwrap(AdvanceBy(key.powers_of_g, skip(i).value))]]

\* The loop of commit_folding over the items of the tree:
\* [panic, pippengers].
RECURSIVE CommitFoldingLoop(_, _, _)
CommitFoldingLoop(items, folded_bases, pippengers) ==
    IF items = <<>>
    THEN [panic |-> FALSE, pippengers |-> pippengers]
    ELSE LET i == Head(items)[1]
             coefficient == Head(items)[2]
         IN  IF i < 1 \/ i > Len(folded_bases) \/ folded_bases[i] = <<>>
             THEN [panic |-> TRUE, pippengers |-> pippengers]
             ELSE CommitFoldingLoop(
                      Tail(items),
                      [folded_bases EXCEPT ![i] = Tail(folded_bases[i])],
                      [pippengers EXCEPT
                          ![i] = PippengerAdd(pippengers[i],
                                              Head(folded_bases[i]),
                                              coefficient)])

\* CommitterKeyStream::commit_folding: [panic, value], value the list of
\* the commitments of the levels.
CommitFolding(key, polynomials, max_msm_buffer, overflow_checks) ==
    LET n == TreeDepth(polynomials)
        folded == FoldedBases(key, polynomials, overflow_checks)
    IN  IF folded.panic
        THEN [panic |-> TRUE, value |-> <<>>]
        ELSE LET r == CommitFoldingLoop(
                          TreeItems(polynomials), folded.bases,
                          [i \in 1..n |->
                              PippengerWithSize(max_msm_buffer \div n)])
             IN  IF r.panic
                 THEN [panic |-> TRUE, value |-> <<>>]
                 ELSE [panic |-> FALSE,
                       value |-> [i \in 1..n |->
                                     PippengerFinalize(r.pippengers[i])]]

\* A batching that leaves the quotient coefficients unweighted.
BatchedScalarUnweighted(etas, i, quotient_coefficient) == quotient_coefficient

\* etas[i - 1] * quotient_coefficient
BatchedScalar(etas, i, quotient_coefficient) ==
    FMul(etas[i], quotient_coefficient)

\* The loop of open_folding over the items of the tree:
\* [panic, remainders, pippenger].
RECURSIVE OpenFoldingLoop(_, _, _, _, _, _, _)
OpenFoldingLoop(items, folded_bases, remainders, zeros, len, etas, pippenger) ==
    IF items = <<>>
    THEN [panic |-> FALSE, remainders |-> remainders, pippenger |-> pippenger]
    ELSE LET i == Head(items)[1]
             coefficient == Head(items)[2]
         IN  IF i = 0
             THEN OpenFoldingLoop(Tail(items), folded_bases, remainders,
                                  zeros, len, etas, pippenger)
             ELSE IF \/ i > Len(folded_bases)
                     \/ folded_bases[i] = <<>>
                     \/ remainders[i] = <<>>
                     \/ i > Len(etas)
             THEN [panic |-> TRUE, remainders |-> remainders,
                   pippenger |-> pippenger]
             ELSE OpenFoldingLoop(
                      Tail(items),
                      [folded_bases EXCEPT ![i] = Tail(folded_bases[i])],
                      [remainders EXCEPT
                          ![i] = SlideWindow(remainders[i], coefficient,
                                             zeros, len)],
                      zeros, len, etas,
                      HashMapPippengerAdd(
                          pippenger, Head(folded_bases[i]),
                          BatchedScalar(etas, i, Head(remainders[i]))))

\* CommitterKeyStream::open_folding: [panic, value],
\* value = <<remainders, proof>>.
OpenFolding(key, polynomials, points, etas, max_msm_buffer, overflow_checks) ==
    LET n == TreeDepth(polynomials)
        zeros == VanishingPolynomial(points)
        folded == FoldedBases(key, polynomials, overflow_checks)
    IN  IF folded.panic
        THEN [panic |-> TRUE, value |-> <<>>]
        ELSE LET r == OpenFoldingLoop(
                          TreeItems(polynomials), folded.bases,
                          [i \in 1..n |-> [j \in 1..Len(points) |-> 0]],
                          zeros, Len(points), etas,
                          PippengerWithSize(max_msm_buffer))
             IN  IF r.panic
                 THEN [panic |-> TRUE, value |-> <<>>]
                 ELSE [panic |-> FALSE,
                       value |-> <<r.remainders,
                                   PippengerFinalize(r.pippenger)>>]

(***************************************************************************)
(* The folding specification: one call on a key and a tree drawn from      *)
(* bounded sets.                                                           *)
(***************************************************************************)
\* The longest base polynomial of a tree, and the deepest tree.
MaxTreeLen == 5
MaxDepth == 2

TreeCoefs == {0, 1}
ChallengeSeeds == {2, 3}
EtaSeeds == {1, 2}
TreePoints == {1, 2}

\* The list seed, seed + 1, ... of n field elements.
Ramp(seed, n) == [i \in 1..n |-> FAdd(seed, i - 1)]

\* One SRS shorter than the longest first level and one longer.
TreeSrsLens == {CeilDiv(MaxTreeLen, 2) - 1, CeilDiv(MaxTreeLen, 2) + 1}

Trees ==
    UNION {{FoldedPolynomialTree(coefficients, Ramp(seed, depth)) :
                coefficients \in SeqsOfLen(TreeCoefs, len),
                seed \in ChallengeSeeds} :
           len \in 0..MaxTreeLen, depth \in 0..MaxDepth}

TreePointLists ==
    UNION {{pts \in SeqsOfLen(TreePoints, m) :
                \A i \in 1..(m - 1) : pts[i] <= pts[i + 1]} : m \in 0..MaxPoints}

FoldingInit ==
    \E n \in TreeSrsLens :
        /\ ck = [powers_of_g |-> PowersOfG(n)]
        /\ sp = NoProver
        /\ tp = TimeProverNew(<<>>, <<>>, 0)
        /\ transcript = [space |-> <<>>, time |-> <<>>]
        /\ last = NoCall
        /\ panicked = FALSE

CallCommitFolding ==
    /\ last.op = "new"
    /\ \E polynomials \in Trees :
       \E max_msm_buffer \in MsmBuffers, overflow_checks \in BOOLEAN :
        LET r == CommitFolding(ck, polynomials, max_msm_buffer, overflow_checks)
        IN  /\ last' = [op |-> "commit_folding", polynomials |-> polynomials,
                        max_msm_buffer |-> max_msm_buffer,
                        overflow_checks |-> overflow_checks, ret |-> r]
            /\ panicked' = r.panic
    /\ UNCHANGED <<sp, tp, transcript, ck>>

CallOpenFolding ==
    /\ last.op = "new"
    /\ \E polynomials \in Trees, points \in TreePointLists :
       \E etas \in {Ramp(seed, TreeDepth(polynomials)) : seed \in EtaSeeds} :
       \E max_msm_buffer \in MsmBuffers, overflow_checks \in BOOLEAN :
        LET r == OpenFolding(ck, polynomials, points, etas, max_msm_buffer,
                             overflow_checks)
        IN  /\ last' = [op |-> "open_folding", polynomials |-> polynomials,
                        points |-> points, etas |-> etas,
                        max_msm_buffer |-> max_msm_buffer,
                        overflow_checks |-> overflow_checks, ret |-> r]
            /\ panicked' = r.panic
    /\ UNCHANGED <<sp, tp, transcript, ck>>

FoldingNext == CallCommitFolding \/ CallOpenFolding

FoldingSpec == FoldingInit /\ [][FoldingNext]_vars

(***************************************************************************)
(* Reference values, computed from the witness by index.                   *)
(***************************************************************************)
RECURSIVE FSum(_)
FSum(s) == IF s = <<>> THEN 0 ELSE FAdd(Head(s), FSum(Tail(s)))

\* The coefficient of index i (from 0) of a stream yielding the highest
\* index first; zero past the end.
At(stream, i) == IF i < Len(stream) THEN stream[Len(stream) - i] ELSE 0

TwistedTerm(f, g, t, i) == FMul(FMul(At(f, i), At(g, i)), FPow(t, i))

\* The sum of f_i * g_i * t^i over all indices.
TwistedProduct(f, g, t) ==
    FSum([k \in 1..Len(f) |-> TwistedTerm(f, g, t, k - 1)])

\* The same sum over the even (parity 0) or the odd (parity 1) indices.
TwistedProductOfParity(f, g, t, parity) ==
    FSum([k \in 1..Len(f) |->
            IF (k - 1) % 2 = parity THEN TwistedTerm(f, g, t, k - 1) ELSE 0])

\* The sum over the pairs of (f_2k * g_2k+1 + f_2k+1 * g_2k * t) * t^2k.
TwistedCrossProduct(f, g, t) ==
    FSum([k \in 1..CeilDiv(Len(f), 2) |->
            FMul(FAdd(FMul(At(f, 2 * k - 2), At(g, 2 * k - 1)),
                      FMul(FMul(At(f, 2 * k - 1), At(g, 2 * k - 2)), t)),
                 FPow(t, 2 * k - 2))])

\* The calls so far alternate next_message and fold, next_message first.
InOrder ==
    /\ ~panicked
    /\ Len(sp.challenges) \in {sp.round, sp.round - 1}

FirstMessageReturned ==
    /\ last.op = "next_message"
    /\ last.before = 0
    /\ IsSome(last.space)

(***************************************************************************)
(* Claims on the sumcheck provers.                                         *)
(***************************************************************************)
\* C1: for every witness of equal length and every challenge sequence, a
\* SpaceProver and a TimeProver built from the same witness and driven by
\* the same alternation of next_message and fold have returned the same
\* round messages, and at the end, after the last fold, final_foldings
\* returns the same value from both.
C1_TimeSpaceEquivalence ==
    InOrder =>
        /\ transcript.space = transcript.time
        /\ (last.op = "final_foldings" /\ Len(sp.challenges) = sp.tot_rounds) =>
                last.space = last.time

\* C1 witness: a run of two rounds ended, with a nonzero message and
\* nonzero final foldings returned.
C1_Witness ==
    /\ InOrder
    /\ sp.tot_rounds = 2
    /\ Len(sp.challenges) = 2
    /\ Len(transcript.space) = 2
    /\ transcript.space[2] # <<0, 0>>
    /\ last.op = "final_foldings"
    /\ IsSome(last.space)
    /\ Unwrap(last.space)[1] # 0
    /\ Unwrap(last.space)[2] # 0

\* C8 as stated: the first message (a, b) satisfies a + b = sum of
\* f_i * g_i * twist^i over the full vectors.
C8_FirstMessageSumsToProduct ==
    FirstMessageReturned =>
        FAdd(Unwrap(last.space)[1], Unwrap(last.space)[2])
            = TwistedProduct(sp.witness.f, sp.witness.g, sp.witness.twist)

\* C8 amended: in the first message (a, b), a is the sum of
\* f_i * g_i * twist^i over the even indices i, so that a plus the sum over
\* the odd indices is the full twisted product, and b is the sum over the
\* pairs k of (f_2k * g_2k+1 + f_2k+1 * g_2k * twist) * twist^2k.
C8_FirstMessageCoefficients ==
    FirstMessageReturned =>
        LET f == sp.witness.f
            g == sp.witness.g
            t == sp.witness.twist
            a == Unwrap(last.space)[1]
            b == Unwrap(last.space)[2]
        IN  /\ a = TwistedProductOfParity(f, g, t, 0)
            /\ FAdd(a, TwistedProductOfParity(f, g, t, 1)) = TwistedProduct(f, g, t)
            /\ b = TwistedCrossProduct(f, g, t)

\* C8 witness: a first message over vectors of length four with twist 2
\* whose a and b are nonzero and do not sum to the twisted product.
C8_Witness ==
    /\ FirstMessageReturned
    /\ Len(sp.witness.f) = 4
    /\ sp.witness.twist = 2
    /\ Unwrap(last.space)[1] # 0
    /\ Unwrap(last.space)[2] # 0
    /\ FAdd(Unwrap(last.space)[1], Unwrap(last.space)[2])
          # TwistedProduct(sp.witness.f, sp.witness.g, sp.witness.twist)

\* C9 as stated: fold advances the round, round() after fold equals round()
\* before it plus one for a prover in an Active round.
C9_FoldAdvancesRound ==
    (last.op = "fold" /\ last.before < sp.tot_rounds) =>
        sp.round = last.before + 1

\* C9 amended: fold leaves round() unchanged; the round is advanced by
\* next_message, round() after a next_message that returns a message equals
\* round() before it plus one.
C9_NextMessageAdvancesRound ==
    /\ last.op = "fold" => sp.round = last.before
    /\ (last.op = "next_message" /\ IsSome(last.space)) =>
            sp.round = last.before + 1

\* C9 witness: fold was called in an Active round after a message.
C9_Witness ==
    /\ InOrder
    /\ last.op = "fold"
    /\ last.before = 1
    /\ last.before < sp.tot_rounds

\* C10 as stated: in every state reached without an abort,
\* challenges.len() == twisted_challenges.len() == round().
C10_ChallengesMatchRound ==
    ~panicked =>
        /\ Len(sp.challenges) = Len(sp.twisted_challenges)
        /\ Len(sp.challenges) = sp.round

\* C10 amended: challenges.len() == twisted_challenges.len() in every state;
\* challenges.len() == round() in the state in which a next_message that does
\* not abort is called, and round() == challenges.len() + 1 once it has
\* returned a message, until fold is called.
C10_ChallengesMatchRoundAtNextMessage ==
    /\ Len(sp.challenges) = Len(sp.twisted_challenges)
    /\ (last.op = "next_message" /\ ~panicked) =>
            Len(sp.challenges) = last.before
    /\ (last.op = "next_message" /\ IsSome(last.space)) =>
            sp.round = Len(sp.challenges) + 1

\* C10 witness: the second message was returned after one fold.
C10_Witness ==
    /\ last.op = "next_message"
    /\ IsSome(last.space)
    /\ last.before = 1
    /\ Len(sp.twisted_challenges) = 1

(***************************************************************************)
(* Reference values of the commitment engine, computed by index.           *)
(***************************************************************************)
\* The value at x of the polynomial whose stream yields the highest
\* coefficient first: the sum of c_i * x^i.
PolyEval(stream, x) ==
    FSum([k \in 1..Len(stream) |-> FMul(At(stream, k - 1), FPow(x, k - 1))])

\* The coefficient of degree j of (p(x) - p(alpha)) / (x - alpha): the sum
\* over i > j of c_i * alpha^(i - j - 1).
QuotientCoefficient(stream, alpha, j) ==
    FSum([k \in 1..Len(stream) |->
            IF k - 1 > j
            THEN FMul(At(stream, k - 1), FPow(alpha, k - 2 - j))
            ELSE 0])

\* The sum of scalars[j] * bases[len(bases) - len(scalars) + j].
UnchunkedMsm(bases, scalars) ==
    [i \in 1..GDim |->
        FSum([j \in 1..Len(scalars) |->
                IF bases[Len(bases) - Len(scalars) + j] = i - 1
                THEN scalars[j]
                ELSE 0])]

Returned(op) == last.op = op /\ ~last.ret.panic

(***************************************************************************)
(* Claims on msm_chunks, commit, open and open_multi_points.               *)
(***************************************************************************)
\* C2: the remainder returned by open_multi_points(p, points) takes at each
\* queried point the value p takes there.
C2_RemainderAgreesAtPoints ==
    Returned("open_multi_points") =>
        \A i \in 1..Len(last.points) :
            PolyEval(last.ret.value[1], last.points[i])
                = PolyEval(last.polynomial, last.points[i])

\* C2 witness: a polynomial of three coefficients was divided at two
\* different points, leaving a nonzero remainder and a nonzero quotient.
C2_Witness ==
    /\ Returned("open_multi_points")
    /\ Len(last.polynomial) = 3
    /\ last.polynomial[1] # 0
    /\ Len(last.points) = 2
    /\ last.points[1] # last.points[2]
    /\ \A i \in 1..2 : last.ret.value[1][i] # 0
    /\ last.ret.value[2] # GZero

\* C3: for a polynomial p no longer than the SRS and a point beta, the proof
\* returned by open_multi_points(p, [beta]) is the proof returned by
\* open(p, beta), for every buffer size of open, and the single remainder
\* coefficient is the evaluation open returns.
C3_SinglePointMatchesOpen ==
    (/\ Returned("open_multi_points")
     /\ Len(last.points) = 1
     /\ Len(last.polynomial) <= Len(ck.powers_of_g)) =>
        \A max_msm_buffer \in MsmBuffers :
            LET o == Open(ck, last.polynomial, last.points[1], max_msm_buffer,
                          last.overflow_checks)
            IN  /\ ~o.panic
                /\ last.ret.value[2] = o.value[2]
                /\ last.ret.value[1] = <<o.value[1]>>

\* C3 witness: a polynomial of three coefficients opened at one nonzero
\* point under an SRS of four powers, with a nonzero proof.
C3_Witness ==
    /\ Returned("open_multi_points")
    /\ Len(last.points) = 1
    /\ last.points[1] # 0
    /\ Len(last.polynomial) = 3
    /\ Len(ck.powers_of_g) = 4
    /\ last.ret.value[1] # <<0>>
    /\ last.ret.value[2][1] # 0
    /\ last.ret.value[2][2] # 0

\* C4: for a polynomial p of length n, 1 <= n <= SRS length, open(p, alpha)
\* returns p(alpha) and the proof whose coefficient on the SRS power of
\* degree j is q_j for j <= n - 2 and zero above, where
\* q = (p(x) - p(alpha)) / (x - alpha), that is
\* c_0 - p(alpha) = -alpha * q_0 and c_i = q_(i-1) - alpha * q_i.
C4_OpenCommitsToQuotient ==
    (/\ last.op = "open"
     /\ 1 <= Len(last.polynomial)
     /\ Len(last.polynomial) <= Len(ck.powers_of_g)) =>
        LET p == last.polynomial
            n == Len(p)
            q(j) == QuotientCoefficient(p, last.alpha, j)
        IN  /\ ~last.ret.panic
            /\ last.ret.value[1] = PolyEval(p, last.alpha)
            /\ \A d \in 0..(GDim - 1) :
                last.ret.value[2][d + 1] = IF d <= n - 2 THEN q(d) ELSE 0
            /\ FSub(At(p, 0), last.ret.value[1]) = FNeg(FMul(last.alpha, q(0)))
            /\ \A i \in 1..(n - 1) :
                At(p, i) = FSub(q(i - 1), FMul(last.alpha, q(i)))

\* C4 witness: a polynomial of three coefficients opened at a nonzero point
\* under an SRS of four powers, with both quotient coefficients nonzero.
C4_Witness ==
    /\ Returned("open")
    /\ Len(last.polynomial) = 3
    /\ Len(ck.powers_of_g) = 4
    /\ last.alpha # 0
    /\ last.ret.value[1] # 0
    /\ last.ret.value[2][1] # 0
    /\ last.ret.value[2][2] # 0

\* C7: msm_chunks(bases, scalars) with len(scalars) <= len(bases) is the
\* unchunked sum of scalars[j] * bases[len(bases) - len(scalars) + j] for
\* every chunk size, is the group identity for an empty scalar stream, and
\* commit(p) is this value for the SRS and p.
C7_MsmChunksIsUnchunkedSum ==
    (/\ last.op \in {"msm_chunks", "commit"}
     /\ Len(last.polynomial) <= Len(ck.powers_of_g)) =>
        /\ ~last.ret.panic
        /\ last.ret.value = UnchunkedMsm(ck.powers_of_g, last.polynomial)
        /\ last.polynomial = <<>> => last.ret.value = GZero

\* C7 witness: three nonzero scalars summed in chunks of two against an SRS
\* of four powers.
C7_Witness ==
    /\ Returned("msm_chunks")
    /\ last.step = 2
    /\ Len(last.polynomial) = 3
    /\ \A j \in 1..3 : last.polynomial[j] # 0
    /\ Len(ck.powers_of_g) = 4
    /\ \A j \in 1..3 : last.ret.value[j] = last.polynomial[4 - j]

(***************************************************************************)
(* Claims on commit_folding and open_folding.                              *)
(***************************************************************************)
\* The SRS holds a power for every coefficient of every level of the tree.
SrsCoversTree(tree) ==
    TreeDepth(tree) = 0 \/ CeilDiv(TreeLen(tree), 2) <= Len(ck.powers_of_g)

\* C5: commit_folding on a tree of depth n over a base polynomial of length
\* N returns whenever the SRS covers the first level; whenever it returns,
\* for every split of the memory budget, it returns n commitments and the
\* i-th is the commitment commit returns on the materialized level i, a
\* polynomial of ceil(N / 2^i) coefficients.
C5_CommitFoldingMatchesCommit ==
    /\ (last.op = "commit_folding" /\ SrsCoversTree(last.polynomials)) =>
            ~last.ret.panic
    /\ Returned("commit_folding") =>
            /\ Len(last.ret.value) = TreeDepth(last.polynomials)
            /\ \A i \in 1..TreeDepth(last.polynomials) :
                LET level == TreeLevel(last.polynomials, i)
                    c == Commit(ck, level, Step)
                IN  /\ Len(level) = CeilDiv(TreeLen(last.polynomials), Pow2(i))
                    /\ ~c.panic
                    /\ last.ret.value[i] = c.value

\* C5 witness: a tree of two levels over five coefficients was committed
\* with a budget that leaves each level a buffer of no pair at all, and the
\* two commitments are nonzero and different.
C5_Witness ==
    /\ Returned("commit_folding")
    /\ TreeDepth(last.polynomials) = 2
    /\ TreeLen(last.polynomials) = 5
    /\ last.max_msm_buffer = 1
    /\ last.ret.value[1] # GZero
    /\ last.ret.value[2] # GZero
    /\ last.ret.value[1] # last.ret.value[2]

\* open_multi_points on the materialized level i of the last call's tree.
LevelOpening(i) ==
    OpenMultiPoints(ck, TreeLevel(last.polynomials, i), last.points,
                    last.max_msm_buffer, last.overflow_checks)

\* The levels among 1..n on which open_multi_points returns.
OpenedLevels ==
    {i \in 1..TreeDepth(last.polynomials) : ~LevelOpening(i).panic}

\* The sum over the levels i in 1..n of `which` of etas[i-1] times the
\* proof of open_multi_points on level i.
RECURSIVE BatchedProof(_, _)
BatchedProof(which, n) ==
    IF n = 0
    THEN GZero
    ELSE IF n \in which
         THEN GAdd(BatchedProof(which, n - 1),
                   GScale(LevelOpening(n).value[2], last.etas[n]))
         ELSE BatchedProof(which, n - 1)

\* C6 as stated: whenever open_folding returns, open_multi_points returns on
\* every level with the same remainder, and the proof is the sum over all
\* the levels of etas[i-1] times the proof of the level.
C6_OpenFoldingMatchesEveryLevel ==
    Returned("open_folding") =>
        /\ OpenedLevels = 1..TreeDepth(last.polynomials)
        /\ \A i \in OpenedLevels :
                last.ret.value[1][i] = LevelOpening(i).value[1]
        /\ last.ret.value[2] = BatchedProof(OpenedLevels, TreeDepth(last.polynomials))

\* C6, amended: open_folding with at least one point and one eta per level
\* returns whenever the SRS covers the first level.  Whenever it returns,
\* open_multi_points returns exactly on the levels of at least points.len()
\* coefficients; on those levels the remainders are the same, on a shorter
\* level the remainder of open_folding is the level's coefficients behind
\* zeros, and the proof is the sum over the levels of at least points.len()
\* coefficients of etas[i-1] times the proof of the level.
C6_OpenFoldingMatchesLongLevels ==
    LET tree == last.polynomials
        m == Len(last.points)
        n == TreeDepth(tree)
        long == {i \in 1..n : Len(TreeLevel(tree, i)) >= m}
    IN  /\ (last.op = "open_folding" /\ m >= 1 /\ SrsCoversTree(tree)) =>
                ~last.ret.panic
        /\ (Returned("open_folding") /\ m >= 1) =>
                /\ OpenedLevels = long
                /\ Len(last.ret.value[1]) = n
                /\ \A i \in long :
                        last.ret.value[1][i] = LevelOpening(i).value[1]
                /\ \A i \in (1..n) \ long :
                        last.ret.value[1][i]
                            = [j \in 1..(m - Len(TreeLevel(tree, i))) |-> 0]
                              \o TreeLevel(tree, i)
                /\ last.ret.value[2] = BatchedProof(long, n)

\* C6 witness: a tree of two levels over five coefficients was opened at one
\* point; both levels have a nonzero quotient and the batched proof is
\* nonzero.
C6_Witness ==
    /\ Returned("open_folding")
    /\ TreeDepth(last.polynomials) = 2
    /\ TreeLen(last.polynomials) = 5
    /\ Len(last.points) = 1
    /\ LevelOpening(1).value[2] # GZero
    /\ LevelOpening(2).value[2] # GZero
    /\ last.ret.value[2] # GZero
    /\ last.ret.value[2] # LevelOpening(1).value[2]

(***************************************************************************)
(* Claims on the state machine of the SpaceProver.                         *)
(***************************************************************************)
\* C11: final_foldings() returns a value exactly when round() == rounds();
\* a returned value is the pair of f folded by all rounds() twisted
\* challenges and g folded by all rounds() plain challenges, each folded
\* stream holding exactly one element.
C11_FinalFoldingsFullyFolded ==
    last.op = "final_foldings" =>
        /\ IsSome(last.space) <=> sp.round = sp.tot_rounds
        /\ IsSome(last.space) =>
              /\ Len(sp.challenges) >= sp.tot_rounds
              /\ LET folded_f == FoldedPolynomialStream(
                                     sp.witness.f,
                                     Take(sp.twisted_challenges, sp.tot_rounds))
                     folded_g == FoldedPolynomialStream(
                                     sp.witness.g,
                                     Take(sp.challenges, sp.tot_rounds))
                 IN  /\ Len(folded_f) = 1
                     /\ Len(folded_g) = 1
                     /\ Unwrap(last.space) = <<folded_f[1], folded_g[1]>>

\* C12 as stated: on a prover with rounds() >= 1 a next_message() that
\* follows a next_message() with no fold() in between aborts, and
\* next_message() aborts whenever the number of challenges differs from
\* round().
C12_SecondNextMessageAborts ==
    ~panicked =>
        \A overflow_checks \in BOOLEAN :
            /\ (sp.tot_rounds >= 1 /\ last.op = "next_message") =>
                  SpaceNextMessage(sp, overflow_checks).panic
            /\ Len(sp.challenges) # sp.round =>
                  SpaceNextMessage(sp, overflow_checks).panic

\* C12, amended: a next_message() that follows a next_message() that
\* returned a message, with no fold() in between, aborts; one that follows
\* a next_message() that returned None returns None again; and
\* next_message() aborts whenever the number of challenges differs from
\* round().
C12_NextMessageAfterMessageAborts ==
    ~panicked =>
        \A overflow_checks \in BOOLEAN :
            LET second == SpaceNextMessage(sp, overflow_checks)
            IN  /\ (last.op = "next_message" /\ IsSome(last.space)) =>
                      second.panic
                /\ (last.op = "next_message" /\ last.space = None) =>
                      (~second.panic /\ second.ret = None)
                /\ Len(sp.challenges) # sp.round => second.panic

\* C12 witness: after the first message of a prover of two rounds a second
\* next_message() was called with no challenge folded, and aborted.
C12_Witness ==
    /\ panicked
    /\ last.op = "next_message"
    /\ sp.tot_rounds = 2
    /\ sp.round = 1
    /\ sp.challenges = <<>>
    /\ Len(transcript.space) = 1

\* C13 as stated: whenever round() == rounds(), next_message() returns None
\* and leaves round, challenges, twisted challenges and twist unchanged.
C13_DoneReturnsNone ==
    [][(NextMessage /\ sp.round = sp.tot_rounds) =>
          /\ ~panicked'
          /\ last'.space = None
          /\ sp' = sp]_vars

\* C13, amended: whenever round() == rounds() and rounds() challenges have
\* been folded, next_message() returns None and leaves round, challenges,
\* twisted challenges and twist unchanged; with round() == rounds() and any
\* other number of challenges it aborts.
C13_DoneInOrderReturnsNone ==
    [][(NextMessage /\ sp.round = sp.tot_rounds) =>
          IF Len(sp.challenges) = sp.tot_rounds
          THEN /\ ~panicked'
               /\ last'.space = None
               /\ sp' = sp
               /\ transcript' = transcript
          ELSE panicked' /\ sp' = sp]_vars

\* C13 witness: a prover of two rounds, both challenges folded, was asked
\* for a third message and returned none.
C13_Witness ==
    /\ ~panicked
    /\ last.op = "next_message"
    /\ last.space = None
    /\ sp.tot_rounds = 2
    /\ sp.round = 2
    /\ Len(sp.challenges) = 2
    /\ Len(transcript.space) = 2

\* The shorter length of the two witness streams.
ShorterLen == Min(Len(sp.witness.f), Len(sp.witness.g))

\* C14 as stated: rounds() is log2 of the shorter length exactly, for every
\* witness that is not empty.
C14_RoundsIsExactLog2 ==
    ShorterLen >= 1 => Pow2(sp.tot_rounds) = ShorterLen

\* C14, amended: rounds() is the least r with 2^r >= min(len(f), len(g)),
\* that is log2 of the shorter length when that is a power of two (3 for
\* length 8) and log2 rounded up otherwise; no call changes it, nor the
\* witness it was computed from.
C14_RoundsIsCeilLog2 ==
    /\ [](/\ Pow2(sp.tot_rounds) >= ShorterLen
          /\ sp.tot_rounds >= 1 => Pow2(sp.tot_rounds - 1) < ShorterLen
          /\ ShorterLen = 8 => sp.tot_rounds = 3)
    /\ [][/\ sp'.tot_rounds = sp.tot_rounds
          /\ sp'.witness = sp.witness]_vars

\* C14 witness: a prover over two streams of 8 coefficients has returned its
\* three messages and folded three challenges.
C14_Witness ==
    /\ Len(sp.witness.f) = 8
    /\ Len(sp.witness.g) = 8
    /\ sp.tot_rounds = 3
    /\ sp.round = 3
    /\ Len(sp.challenges) = 3

\* The protocol loop has ended and recorded final_foldings().
LoopTerminated == last.op = "final_foldings"

C17_AlignedStreamsMatch ==
    (~panicked /\ sp.round < sp.tot_rounds /\ Len(sp.challenges) = sp.round) =>
        LET folded_f == FoldedPolynomialStream(sp.witness.f,
                                               sp.twisted_challenges)
            folded_g == FoldedPolynomialStream(sp.witness.g, sp.challenges)
            delta == AlignDelta(Len(folded_f), Len(folded_g))
            f_coefficients == Len(folded_f) - delta.f
            g_coefficients == Len(folded_g) - delta.g
            f1 == FirstPair(Drop(folded_f, delta.f), f_coefficients)
            g1 == FirstPair(Drop(folded_g, delta.g), g_coefficients)
        IN  /\ f_coefficients % 2 = g_coefficients % 2
            /\ ~f1.panic
            /\ ~g1.panic
            /\ \A overflow_checks \in BOOLEAN :
                 LET f_pairs == PairCount(f_coefficients, overflow_checks)
                     g_pairs == PairCount(g_coefficients, overflow_checks)
                 IN  /\ ~f_pairs.panic
                     /\ ~g_pairs.panic
                     /\ f_pairs.pairs = g_pairs.pairs
                     /\ 2 * f_pairs.pairs <= Len(f1.rest)
                     /\ 2 * g_pairs.pairs <= Len(g1.rest)
                     /\ sp.twist # 0 =>
                           ~SpaceNextMessage(sp, overflow_checks).panic

\* C18: after k calls fold(r_1), ..., fold(r_k) on a prover constructed with
\* twist t the plain list is [r_1..r_k], the twisted list holds
\* r_j * t^(2^(j-1)) at position j and the current twist is t^(2^k); fold
\* leaves round, tot_rounds and the witness streams as they were, and no
\* other operation touches the lists or the twist.
C18_FoldAppendsAndSquares ==
    /\ [](/\ Len(sp.twisted_challenges) = Len(sp.challenges)
          /\ \A j \in 1..Len(sp.challenges) :
                sp.twisted_challenges[j] =
                    FMul(sp.challenges[j], FPow(sp.witness.twist, Pow2(j - 1)))
          /\ sp.twist = FPow(sp.witness.twist, Pow2(Len(sp.challenges))))
    /\ [][IF Fold
          THEN /\ IsSome(last'.arg)
               /\ sp'.challenges = Append(sp.challenges, Unwrap(last'.arg))
               /\ sp'.round = sp.round
               /\ sp'.tot_rounds = sp.tot_rounds
               /\ sp'.witness = sp.witness
          ELSE /\ sp'.challenges = sp.challenges
               /\ sp'.twisted_challenges = sp.twisted_challenges
               /\ sp'.twist = sp.twist]_vars

\* Two challenges folded into a prover constructed with twist 2.
C18_Witness ==
    /\ last.op = "fold"
    /\ sp.witness.twist = 2
    /\ sp.challenges = <<3, 2>>
    /\ sp.twisted_challenges = <<FMul(3, 2), FMul(2, 4)>>
    /\ sp.twist = FPow(2, 4)
    /\ sp.round = 1

\* C19: under any sequence of next_message() and fold() calls, in order or
\* out of order, round() never decreases and 0 <= round() <= rounds() in
\* every reachable state.
C19_RoundMonotoneAndBounded ==
    /\ [](0 <= SpaceRound(sp) /\ SpaceRound(sp) <= SpaceRounds(sp))
    /\ [][/\ SpaceRound(sp') >= SpaceRound(sp)
          /\ SpaceRounds(sp') = SpaceRounds(sp)]_vars

\* The last round reached with the calls out of order: two folds in a row
\* after the second message.
C19_Witness ==
    /\ ~panicked
    /\ last.op = "fold"
    /\ SpaceRounds(sp) = 2
    /\ SpaceRound(sp) = 2
    /\ Len(sp.challenges) = 3
    /\ Len(transcript.space) = 2

(***************************************************************************)
(* Claims on the aborts and the window of the commitment operations.       *)
(***************************************************************************)
\* C15: msm_chunks, commit, open and open_multi_points abort, returning
\* nothing, whenever the scalar or polynomial stream is longer than the SRS
\* stream it is paired with.
C15_LongerThanSrsAborts ==
    (/\ last.op \in {"msm_chunks", "commit", "open", "open_multi_points"}
     /\ Len(last.polynomial) > Len(ck.powers_of_g)) =>
        last.ret.panic

\* C20: a call open_multi_points with m = points.len() >= 1 returns whenever
\* m <= len(p) <= SRS length, and in every call that returns len(p) >= m,
\* the window holds exactly m coefficients after seeding and after every
\* processed coefficient, exactly len(p) - m quotient coefficients are fed
\* to the accumulator, the k-th against the k-th SRS element after the
\* first SRS length - len(p) + m, and the remainder has m coefficients.
C20_WindowOfPoints ==
    (last.op = "open_multi_points" /\ Len(last.points) >= 1) =>
        LET m == Len(last.points)
            n == Len(last.polynomial)
            S == Len(ck.powers_of_g)
            skip == S - n + m
        IN  /\ (m <= n /\ n <= S) => ~last.ret.panic
            /\ ~last.ret.panic =>
                 /\ n >= m
                 /\ skip >= 0
                 /\ Len(last.ret.windows) = n - m + 1
                 /\ \A k \in 1..Len(last.ret.windows) :
                      Len(last.ret.windows[k]) = m
                 /\ last.ret.windows[1] = Take(last.polynomial, m)
                 /\ Len(last.ret.fed) = n - m
                 /\ \A k \in 1..(n - m) :
                      /\ skip + k <= S
                      /\ last.ret.fed[k].base = ck.powers_of_g[skip + k]
                      /\ last.ret.fed[k].scalar = Head(last.ret.windows[k])
                 /\ Len(last.ret.value[1]) = m
                 /\ last.ret.value[1] =
                        last.ret.windows[Len(last.ret.windows)]

\* Two points and a polynomial of 3 coefficients on an SRS of 4: one
\* quotient coefficient fed, against the fourth SRS element.
C20_Witness ==
    /\ last.op = "open_multi_points"
    /\ ~last.ret.panic
    /\ Len(last.points) = 2
    /\ Len(last.polynomial) = 3
    /\ Len(ck.powers_of_g) = 4
    /\ Len(last.ret.fed) = 1
    /\ last.ret.fed[1].base = ck.powers_of_g[4]
    /\ Len(last.ret.value[1]) = 2

(***************************************************************************)
(* Claims on the conversion of a SpaceProver into a TimeProver.            *)
(***************************************************************************)
\* k complete rounds have been run: no call aborted and every message was
\* answered by a fold.
CompleteRounds ==
    /\ ~panicked
    /\ Len(sp.challenges) = sp.round

\* The converted prover copies round, tot_rounds and twist, holds the
\* k-times-folded streams in ascending order of index with the folded
\* lengths, and is the TimeProver that was driven by the same calls.
ConvertedState ==
    LET t == TimeProverFrom(sp)
        k == sp.round
    IN  /\ t.round = SpaceRound(sp)
        /\ t.tot_rounds = SpaceRounds(sp)
        /\ t.twist = sp.twist
        /\ t.f = FoldAll(Reverse(sp.witness.f), sp.twisted_challenges)
        /\ t.g = FoldAll(Reverse(sp.witness.g), sp.challenges)
        /\ Len(t.f) = CeilDiv(Len(sp.witness.f), Pow2(k))
        /\ Len(t.g) = CeilDiv(Len(sp.witness.g), Pow2(k))
        /\ t = tp

\* The next message of the converted prover is the SpaceProver's wherever
\* that one returns, and the two stay converted into each other over the
\* round.
ConvertedMessages ==
    LET t == TimeProverFrom(sp)
    IN  \A overflow_checks \in BOOLEAN :
          LET s == SpaceNextMessage(sp, overflow_checks)
              n == TimeNextMessage(t)
          IN  ~s.panic =>
                /\ s.ret = n.ret
                /\ IsSome(s.ret) =>
                     \A r \in Challenges :
                        TimeProverFrom(SpaceFold(s.prover, r)) =
                            TimeFold(n.prover, r)

ConvertedFinalFoldings ==
    SpaceFinalFoldings(sp) = TimeFinalFoldings(TimeProverFrom(sp))

C22_ZeroTwistAborts ==
    /\ (~panicked /\ sp.twist = 0 /\ sp.round < sp.tot_rounds
           /\ ChallengesAtRound(sp)) =>
          LET folded_f == FoldedPolynomialStream(sp.witness.f,
                                                 sp.twisted_challenges)
              folded_g == FoldedPolynomialStream(sp.witness.g, sp.challenges)
              delta == AlignDelta(Len(folded_f), Len(folded_g))
              f_coefficients == Len(folded_f) - delta.f
              g_coefficients == Len(folded_g) - delta.g
          IN  /\ ~FirstPair(Drop(folded_f, delta.f), f_coefficients).panic
              /\ ~FirstPair(Drop(folded_g, delta.g), g_coefficients).panic
              /\ FInverse(FSquare(sp.twist)) = None
              /\ \A overflow_checks \in BOOLEAN :
                   /\ ~PairCount(f_coefficients, overflow_checks).panic
                   /\ PairCount(f_coefficients, overflow_checks) =
                          PairCount(g_coefficients, overflow_checks)
                   /\ SpaceNextMessage(sp, overflow_checks) =
                          [panic |-> TRUE, prover |-> sp, ret |-> None]
    /\ (last.op = "next_message" /\ sp.twist = 0
           /\ last.before < sp.tot_rounds) =>
          /\ panicked
          /\ last.space = None
          /\ SpaceRound(sp) = last.before
          /\ Len(transcript.space) = last.before

\* The first next_message() on a witness of 4 and 4 coefficients with
\* twist zero has aborted.
C22_Witness ==
    /\ panicked
    /\ last.op = "next_message"
    /\ last.space = None
    /\ sp.twist = 0
    /\ Len(sp.witness.f) = 4
    /\ sp.tot_rounds = 2
    /\ SpaceRound(sp) = 0
    /\ sp.challenges = <<>>

\* C23: open_multi_points aborts when points is empty and the polynomial is
\* not, and when there are more points than polynomial coefficients; a call
\* that returns hands back a remainder of exactly points.len() coefficients.
C23_MultiPointsAborts ==
    last.op = "open_multi_points" =>
        LET m == Len(last.points)
            n == Len(last.polynomial)
        IN  /\ (m = 0 /\ n >= 1) => last.ret.panic
            /\ m > n => last.ret.panic
            /\ ~last.ret.panic =>
                 /\ Len(last.ret.value) = 2
                 /\ Len(last.ret.value[1]) = m
                 /\ m <= n
                 /\ m = 0 => n = 0

\* No points and a polynomial of 2 coefficients on an SRS of 4: the call
\* has aborted although the SRS covers the polynomial.
C23_Witness ==
    /\ last.op = "open_multi_points"
    /\ last.points = <<>>
    /\ Len(last.polynomial) = 2
    /\ Len(ck.powers_of_g) = 4
    /\ last.ret.panic
    /\ panicked

(***************************************************************************)
(* Claims on the conversions of keys.                                      *)
(***************************************************************************)
\* C24: for a CommitterKey of n powers, the stream taken from it yields the
\* powers from the highest degree to the lowest; as_committer_key(d) for
\* 0 <= d <= n returns the d lowest-degree entries of the key in their
\* order, the whole key for d = n; and the VerifierKey taken from the
\* stream of a key that is not empty holds the power of degree 0, the last
\* element of the stream, as its single G1 element.
C24_KeyConversions ==
    LET key == last.key
        n == Len(key.powers_of_g)
    IN  /\ Len(ck.powers_of_g) = n
        /\ \A i \in 1..n : ck.powers_of_g[i] = key.powers_of_g[n + 1 - i]
        /\ (last.op = "as_committer_key" /\ last.max_degree <= n) =>
              /\ ~last.ret.panic
              /\ Len(last.ret.value[1].powers_of_g) = last.max_degree
              /\ \A i \in 1..last.max_degree :
                    last.ret.value[1].powers_of_g[i] = key.powers_of_g[i]
              /\ last.max_degree = n => last.ret.value[1] = key
        /\ (last.op = "verifier_key" /\ ~last.ret.panic) =>
              /\ n >= 1
              /\ last.ret.value[1].powers_of_g = <<key.powers_of_g[1]>>
              /\ last.ret.value[1].powers_of_g = <<ck.powers_of_g[n]>>
        /\ (last.op = "verifier_key" /\ n >= 1) => ~last.ret.panic

\* as_committer_key(2) on the stream of a key of 3 different entries.
C24_Witness ==
    /\ last.op = "as_committer_key"
    /\ last.key.powers_of_g = <<"g_a", "g_b", "g_c">>
    /\ ck.powers_of_g = <<"g_c", "g_b", "g_a">>
    /\ last.max_degree = 2
    /\ ~last.ret.panic
    /\ last.ret.value[1].powers_of_g = <<"g_a", "g_b">>

====
